---- MODULE Spec2Model ----
(***************************************************************************)
(* A model of monitor.py, the VIX / vStoxx week-1 entry monitor.           *)
(*                                                                         *)
(* One run of main() is a sequential program: it checks the two secrets,   *)
(* fetches the VIX close (Yahoo) and the vStoxx close (stooq), evaluates   *)
(* the entry rule, builds the message and posts it to Telegram.  The three *)
(* network functions each wrap their request in a counting loop            *)
(* `for attempt in range(1, RETRIES + 1)` with a linear back-off sleep.    *)
(*                                                                         *)
(* The environment is nondeterministic: what each request returns (an      *)
(* exception, a frame without the Close column, or a frame of rows), and   *)
(* the system clock, which may move to the next day between two steps.     *)
(* Every outbound request and every time.sleep is appended to `log`.       *)
(*                                                                         *)
(* Prices are fixed-point numbers, PriceScale units per index point.       *)
(***************************************************************************)
EXTENDS Integers, Sequences, FiniteSets, TLC

VARIABLES
    pc,          \* position of main(): which call it is in, or the terminal state
    bot_token,   \* os.getenv("TELEGRAM_BOT_TOKEN")
    chat_id,     \* os.getenv("TELEGRAM_CHAT_ID")
    clock,       \* the system clock's date, what date.today() returns
    ticks,       \* how many times the clock has moved to the next day
    attempt,     \* the loop variable `attempt` of the retry loop being run
    df,          \* the response parsed by the latest fetch attempt
    vix,         \* main's local `vix`
    vstoxx,      \* main's local `vstoxx`
    query_end,   \* fetch_vstoxx's local `today`, the end of the query window
    arg_today,   \* the `today` argument evaluate is called with
    week_today,  \* is_week_one's local `today`, the date it tests
    earlier,     \* the verdict an earlier call of evaluate returned
    result,      \* main's local `result`, the dict evaluate returned
    message,     \* main's local `message`
    err,         \* the exception the retry loop's except clause caught last
    exc,         \* the exception main's handler caught
    exit_code,   \* the process exit code
    log          \* the requests issued and the sleeps taken, in order

vars == <<pc, bot_token, chat_id, clock, ticks, attempt, df, vix, vstoxx,
          query_end, arg_today, week_today, earlier, result, message, err, exc,
          exit_code, log>>

-----------------------------------------------------------------------------
(* Program constants *)

EU_CRISIS_THRESHOLD == 10
VSTOXX_PER_VIX == 8
WEEK_ONE_MAX_DAY == 7
RETRIES == 3
RETRY_DELAY == 5

(* Resolution of the fixed-point prices: the two decimals the message shows. *)
PriceScale == 100

-----------------------------------------------------------------------------
(* Bounds of the model *)

MaxRows == 2     \* rows in a response frame
MaxTicks == 1    \* day changes of the system clock during a run

-----------------------------------------------------------------------------
(* Values *)

\* os.getenv gives None for an unset variable, "" for one set to nothing
EnvValues == {"None", "", "secret"}

Date(m, d) == [month |-> m, day |-> d]

\* the days on which a run may start: both sides of the week-one border,
\* mid-month, and the last day of a month
StartDates == {Date(1, 1), Date(1, 7), Date(1, 8), Date(1, 15), Date(1, 31)}

\* the date after `d` (months of the model have 31 days)
NextDate(d) == IF d.day = 31 THEN Date(d.month + 1, 1) ELSE Date(d.month, d.day + 1)

\* closes a source may report, in fixed point: negative, zero, and three
\* prices whose differences sit on both sides of the crisis threshold
Closes == {0 - PriceScale, 0, 15 * PriceScale,
           (15 + EU_CRISIS_THRESHOLD) * PriceScale,
           (15 + EU_CRISIS_THRESHOLD) * PriceScale + 1}

\* a cell of the Close column: a number, or NaN
Cells == [Close : Closes, isna : {FALSE}] \cup [Close : {0}, isna : {TRUE}]

SeqsUpTo(S, n) == UNION {[1..k -> S] : k \in 0..n}

\* the rows of a frame holding the cells cs, dated 1..Len(cs) in the order
\* the source lists them: oldest first (ascending) or newest first
DatedRows(cs, ascending) ==
    [i \in 1..Len(cs) |->
        [Date |-> IF ascending THEN i ELSE Len(cs) + 1 - i,
         Close |-> cs[i].Close, isna |-> cs[i].isna]]

\* what a request can come back with: an exception (connection error, timeout,
\* HTTP error status, unparsable body), or a frame with or without Close
NetError == [error |-> TRUE, has_close |-> FALSE, rows |-> <<>>]
Frame(hc, rs) == [error |-> FALSE, has_close |-> hc, rows |-> rs]
Responses ==
    {NetError}
        \cup {Frame(TRUE, DatedRows(cs, asc)) :
                 cs \in SeqsUpTo(Cells, MaxRows), asc \in BOOLEAN}
        \cup {Frame(FALSE, DatedRows(<<[Close |-> 0, isna |-> TRUE]>>, TRUE))}

\* what one attempt comes to: the value returned, or the exception caught
Failure(e) == [ok |-> FALSE, val |-> 0, err |-> e]
Success(v) == [ok |-> TRUE, val |-> v, err |-> ""]


-----------------------------------------------------------------------------
(* The effects a run has on the world *)

\* one outbound request: attempt number `n` of the call to `target`
\* ("vix", "vstoxx": a fetch; "alert", "error": a sendMessage POST);
\* ok is whether the attempt returned a value to its caller
Request(target, n, ok) ==
    [kind |-> "request", target |-> target, n |-> n, ok |-> ok, secs |-> 0]

\* one time.sleep(secs), taken after attempt `n` of the call to `target` failed
Sleep(target, n, secs) ==
    [kind |-> "sleep", target |-> target, n |-> n, ok |-> FALSE, secs |-> secs]

-----------------------------------------------------------------------------
(* Data fetching *)

\* the body of fetch_vix's try block: what one attempt makes of response r
vix_attempt(r) ==
    IF r.error THEN Failure("download failed")
    ELSE IF r.rows = <<>> THEN Failure("No data returned for ^VIX")
    ELSE IF ~r.has_close THEN Failure("KeyError: 'Close'")
    ELSE LET close == SelectSeq(r.rows, LAMBDA x : ~x.isna)   \* dropna()
         IN  IF close = <<>> THEN Failure("'Close' column empty for ^VIX")
             ELSE Success(close[Len(close)].Close)      \* close.iloc[-1]

\* a slip: the first valid row taken for the most recent one
vstoxx_attempt_first_row(r) ==
    IF r.error THEN Failure("request failed")
    ELSE IF r.rows = <<>> \/ ~r.has_close
    THEN Failure("Unexpected stooq response format")
    ELSE LET valid == SelectSeq(r.rows, LAMBDA x : ~x.isna /\ x.Close > 0)
         IN  IF valid = <<>>
             THEN Failure("No valid vStoxx prices returned from stooq")
             ELSE Success(valid[1].Close)

\* the body of fetch_vstoxx's try block
vstoxx_attempt(r) ==
    IF r.error THEN Failure("request failed")           \* get, raise_for_status
    ELSE IF r.rows = <<>> \/ ~r.has_close
    THEN Failure("Unexpected stooq response format")
    ELSE LET valid == SelectSeq(r.rows, LAMBDA x : ~x.isna /\ x.Close > 0)
         IN  IF valid = <<>>
             THEN Failure("No valid vStoxx prices returned from stooq")
             ELSE Success(valid[Len(valid)].Close)      \* df["Close"].iloc[-1]

\* a slip: the last attempt's failure sleeps and retries like the others
vstoxx_retry_always(a) == a <= RETRIES

\* `if attempt < RETRIES` of the three except clauses: sleep and go round again
vix_retry(a) == a < RETRIES
vstoxx_retry(a) == a < RETRIES
telegram_retry(a) == a < RETRIES

\* a slip: a back-off twice as long
vstoxx_delay_doubled(a) == RETRY_DELAY * (2 * a)

\* slips: a constant back-off; a back-off that counts attempts from 0
vix_delay_constant(a) == RETRY_DELAY
telegram_delay_from_zero(a) == RETRY_DELAY * (a - 1)

\* `time.sleep(RETRY_DELAY * attempt)` of the three except clauses
vix_delay(a) == RETRY_DELAY * a
vstoxx_delay(a) == RETRY_DELAY * a
telegram_delay(a) == RETRY_DELAY * a

-----------------------------------------------------------------------------
(* Entry-condition logic *)

NoDate == <<>>
Today(d) == <<d>>

\* is_week_one, lines 114-115: the date tested is the argument, or
\* date.today() when the argument is None (NoDate)
week_one_date(today) == IF today = NoDate THEN clock ELSE today[1]

\* a slip: the clock read whether or not a date was passed
is_week_one_clock_only(today) == clock.day <= WEEK_ONE_MAX_DAY

\* is_week_one(today): `today` is NoDate for Python's None, else Today(d)
is_week_one(today) ==
    LET t == week_one_date(today)
    IN  t.day <= WEEK_ONE_MAX_DAY

\* slips: `>=` for `>` in the crisis test; the week left out of `enter`
evaluate_crisis_at_threshold(v, vs, today) ==
    LET spread    == vs - v
        eu_crisis == spread >= EU_CRISIS_THRESHOLD * PriceScale
        week_one  == is_week_one(today)
        enter     == week_one /\ ~eu_crisis
    IN  [spread |-> spread, eu_crisis |-> eu_crisis,
         week_one |-> week_one, enter |-> enter]

evaluate_enter_any_week(v, vs, today) ==
    LET spread    == vs - v
        eu_crisis == spread > EU_CRISIS_THRESHOLD * PriceScale
        week_one  == is_week_one(today)
        enter     == ~eu_crisis
    IN  [spread |-> spread, eu_crisis |-> eu_crisis,
         week_one |-> week_one, enter |-> enter]

evaluate(v, vs, today) ==
    LET spread    == vs - v
        eu_crisis == spread > EU_CRISIS_THRESHOLD * PriceScale
        week_one  == is_week_one(today)
        enter     == week_one /\ ~eu_crisis
    IN  [spread |-> spread, eu_crisis |-> eu_crisis,
         week_one |-> week_one, enter |-> enter]

-----------------------------------------------------------------------------
(* Message formatting *)

\* f"{x:.2f}": sign, whole part and the two decimals
Fixed2(x) ==
    LET a == IF x < 0 THEN 0 - x ELSE x
    IN  [sign |-> IF x < 0 THEN "-" ELSE "",
         whole |-> a \div PriceScale, frac |-> a % PriceScale]

\* f"{x:+.2f}": the same with an explicit sign
Signed2(x) == [Fixed2(x) EXCEPT !.sign = IF x < 0 THEN "-" ELSE "+"]

\* f"{x:.0f}" of a whole number of index points
Fixed0(n) == [sign |-> "", whole |-> n, frac |-> 0]

Line(tag, args) == [tag |-> tag, args |-> args]

\* a slip: the verdict block chosen by the crisis flag before the week
build_message_crisis_first(v, vs, res) ==
    LET spread == res.spread
        head == << Line("title", <<>>),
                   Line("date", <<clock>>),                  \* date.today()
                   Line("", <<>>),
                   Line("VIX", <<Fixed2(v)>>),
                   Line("vStoxx", <<Fixed2(vs)>>),
                   Line("Spread", <<Signed2(spread)>>),
                   Line("", <<>>) >>
        week == IF res.week_one
                THEN << Line("Week 1 of month: YES", <<>>) >>
                ELSE << Line("Week 1 of month: NO", <<>>) >>
        crisis == IF res.eu_crisis
                  THEN << Line("EU Crisis filter: TRIGGERED",
                               <<Signed2(spread), Fixed0(EU_CRISIS_THRESHOLD)>>) >>
                  ELSE << Line("EU Crisis filter: CLEAR",
                               <<Signed2(spread), Fixed0(EU_CRISIS_THRESHOLD)>>) >>
        rule == Line("rule", <<>>)
        verdict ==
            IF res.enter
            THEN << rule, Line("ENTER TRADE", <<>>),
                    Line("Short 1x VIX futures", <<>>),
                    Line("Long vStoxx futures", <<VSTOXX_PER_VIX>>),
                    Line("Dollar-neutral position", <<>>), rule >>
            ELSE IF res.eu_crisis
            THEN << rule, Line("SKIP ENTRY", <<>>),
                    Line("Spread exceeds threshold",
                         <<Signed2(spread), Fixed0(EU_CRISIS_THRESHOLD)>>),
                    Line("Monitor daily", <<>>), rule >>
            ELSE << rule, Line("NO SIGNAL", <<>>),
                    Line("Wait for week 1 of next month", <<>>), rule >>
    IN  head \o week \o crisis \o << Line("", <<>>) >> \o verdict

\* a variant: the crisis line left out when not in week one
build_message_crisis_in_week_one(v, vs, res) ==
    LET spread == res.spread
        head == << Line("title", <<>>),
                   Line("date", <<clock>>),                  \* date.today()
                   Line("", <<>>),
                   Line("VIX", <<Fixed2(v)>>),
                   Line("vStoxx", <<Fixed2(vs)>>),
                   Line("Spread", <<Signed2(spread)>>),
                   Line("", <<>>) >>
        week == IF res.week_one
                THEN << Line("Week 1 of month: YES", <<>>) >>
                ELSE << Line("Week 1 of month: NO", <<>>) >>
        crisis == IF ~res.week_one THEN <<>>
                  ELSE IF res.eu_crisis
                  THEN << Line("EU Crisis filter: TRIGGERED",
                               <<Signed2(spread), Fixed0(EU_CRISIS_THRESHOLD)>>) >>
                  ELSE << Line("EU Crisis filter: CLEAR",
                               <<Signed2(spread), Fixed0(EU_CRISIS_THRESHOLD)>>) >>
        rule == Line("rule", <<>>)
        verdict ==
            IF res.enter
            THEN << rule, Line("ENTER TRADE", <<>>),
                    Line("Short 1x VIX futures", <<>>),
                    Line("Long vStoxx futures", <<VSTOXX_PER_VIX>>),
                    Line("Dollar-neutral position", <<>>), rule >>
            ELSE IF ~res.week_one
            THEN << rule, Line("NO SIGNAL", <<>>),
                    Line("Wait for week 1 of next month", <<>>), rule >>
            ELSE << rule, Line("SKIP ENTRY", <<>>),
                    Line("Spread exceeds threshold",
                         <<Signed2(spread), Fixed0(EU_CRISIS_THRESHOLD)>>),
                    Line("Monitor daily", <<>>), rule >>
    IN  head \o week \o crisis \o << Line("", <<>>) >> \o verdict

build_message(v, vs, res) ==
    LET spread == res.spread
        head == << Line("title", <<>>),
                   Line("date", <<clock>>),                  \* date.today()
                   Line("", <<>>),
                   Line("VIX", <<Fixed2(v)>>),
                   Line("vStoxx", <<Fixed2(vs)>>),
                   Line("Spread", <<Signed2(spread)>>),
                   Line("", <<>>) >>
        week == IF res.week_one
                THEN << Line("Week 1 of month: YES", <<>>) >>
                ELSE << Line("Week 1 of month: NO", <<>>) >>
        crisis == IF res.eu_crisis
                  THEN << Line("EU Crisis filter: TRIGGERED",
                               <<Signed2(spread), Fixed0(EU_CRISIS_THRESHOLD)>>) >>
                  ELSE << Line("EU Crisis filter: CLEAR",
                               <<Signed2(spread), Fixed0(EU_CRISIS_THRESHOLD)>>) >>
        rule == Line("rule", <<>>)
        verdict ==
            IF res.enter
            THEN << rule, Line("ENTER TRADE", <<>>),
                    Line("Short 1x VIX futures", <<>>),
                    Line("Long vStoxx futures", <<VSTOXX_PER_VIX>>),
                    Line("Dollar-neutral position", <<>>), rule >>
            ELSE IF ~res.week_one
            THEN << rule, Line("NO SIGNAL", <<>>),
                    Line("Wait for week 1 of next month", <<>>), rule >>
            ELSE << rule, Line("SKIP ENTRY", <<>>),
                    Line("Spread exceeds threshold",
                         <<Signed2(spread), Fixed0(EU_CRISIS_THRESHOLD)>>),
                    Line("Monitor daily", <<>>), rule >>
    IN  head \o week \o crisis \o << Line("", <<>>) >> \o verdict


-----------------------------------------------------------------------------
(* Placeholders of locals that are not assigned yet; nothing reads them *)

NoFrame == [error |-> FALSE, has_close |-> FALSE, rows |-> <<>>]
NoPrice == 0
NoResult == [spread |-> 0, eu_crisis |-> FALSE, week_one |-> FALSE, enter |-> FALSE]
NoMessage == <<>>
NoException == ""
Running == 0 - 1

-----------------------------------------------------------------------------
(* Entry point *)

Terminal == {"Done", "Failed", "Misconfigured"}

Init ==
    /\ pc = "main"
    /\ bot_token \in EnvValues
    /\ chat_id \in EnvValues
    /\ clock \in StartDates
    /\ ticks = 0
    /\ attempt = 0
    /\ df = NoFrame
    /\ vix = NoPrice
    /\ vstoxx = NoPrice
    /\ query_end = NoDate
    /\ arg_today = NoDate                    \* main passes no `today`
    /\ week_today = NoDate
    /\ earlier = NoResult
    /\ result = NoResult
    /\ message = NoMessage
    /\ err = NoException
    /\ exc = NoException
    /\ exit_code = Running
    /\ log = <<>>

\* a slip: the error notification sent after the alert went out as well
NextStep_notify_after_alert(step) ==
    CASE step = "fetch_vix"     -> "fetch_vstoxx"
      [] step = "fetch_vstoxx"  -> "evaluate"
      [] step = "evaluate"      -> "build_message"
      [] step = "build_message" -> "send_alert"
      [] step = "send_alert"    -> "send_error"

\* a slip: the vStoxx fetch left out of the sequence
NextStep_without_vstoxx(step) ==
    CASE step = "fetch_vix"     -> "evaluate"
      [] step = "fetch_vstoxx"  -> "evaluate"
      [] step = "evaluate"      -> "build_message"
      [] step = "build_message" -> "send_alert"
      [] step = "send_alert"    -> "Done"

\* the statements of main's try block, in the order they are written
\* (lines 241-248): what main goes on to when `step` has returned
NextStep(step) ==
    CASE step = "fetch_vix"     -> "fetch_vstoxx"
      [] step = "fetch_vstoxx"  -> "evaluate"
      [] step = "evaluate"      -> "build_message"
      [] step = "build_message" -> "send_alert"
      [] step = "send_alert"    -> "Done"

\* a slip: the same exit code for missing secrets as for a runtime failure
ExitCode_no_2(state) ==
    CASE state = "Done"          -> 0
      [] state = "Failed"        -> 1
      [] state = "Misconfigured" -> 1

\* the exit code of each terminal state: falling off the end of main (0),
\* sys.exit(1) of the handler, sys.exit(2) of the secrets check
ExitCode(state) ==
    CASE state = "Done"          -> 0
      [] state = "Failed"        -> 1
      [] state = "Misconfigured" -> 2

\* a slip: `and` for `or`, so that one secret is enough to go on
SecretsBothMissing(tok, cid) ==
    (tok = "None" \/ tok = "") /\ (cid = "None" \/ cid = "")

\* `not bot_token or not chat_id`: None and "" are both falsy
SecretsMissing(tok, cid) ==
    (tok = "None" \/ tok = "") \/ (cid = "None" \/ cid = "")

\* main, lines 233-240: read the secrets, exit 2 without them, else call fetch_vix
CheckSecrets ==
    /\ pc = "main"
    /\ IF SecretsMissing(bot_token, chat_id)
       THEN /\ pc' = "Misconfigured"
            /\ exit_code' = ExitCode("Misconfigured")
            /\ attempt' = attempt
       ELSE /\ pc' = "fetch_vix"
            /\ attempt' = 1
            /\ exit_code' = exit_code
    /\ UNCHANGED <<bot_token, chat_id, clock, ticks, df, vix, vstoxx, query_end,
                   arg_today, result, message, err, exc, log>>
    /\ UNCHANGED <<week_today, earlier>>

\* a slip: the handler exits without sending the error text
Raise_without_notify(e) ==
    /\ pc' = "Failed"
    /\ exc' = e
    /\ attempt' = 0
    /\ err' = NoException

\* an exception leaves main's try block: the handler (lines 250-253) logs it
\* and calls send_telegram with the error text
Raise(e) ==
    /\ pc' = "send_error"
    /\ exc' = e
    /\ attempt' = 1
    /\ err' = NoException

\* one iteration of fetch_vix's loop
FetchVixAttempt ==
    /\ pc = "fetch_vix"
    /\ \E r \in Responses :
         LET out == vix_attempt(r)
         IN  IF out.ok
             THEN /\ df' = r
                  /\ vix' = out.val                          \* return val
                  /\ log' = Append(log, Request("vix", attempt, TRUE))
                  /\ pc' = NextStep("fetch_vix")
                  /\ attempt' = 0
                  /\ err' = NoException
                  /\ exc' = exc
             ELSE IF vix_retry(attempt)
             THEN /\ log' = log \o << Request("vix", attempt, FALSE),
                                      Sleep("vix", attempt, vix_delay(attempt)) >>
                  /\ attempt' = attempt + 1
                  /\ err' = out.err
                  /\ UNCHANGED <<pc, df, vix, exc>>
             ELSE /\ log' = Append(log, Request("vix", attempt, FALSE))
                  /\ Raise(out.err)                          \* raise
                  /\ UNCHANGED <<df, vix>>
    /\ UNCHANGED <<bot_token, chat_id, clock, ticks, vstoxx, query_end, arg_today, result,
                   message, exit_code>>
    /\ UNCHANGED <<week_today, earlier>>

\* fetch_vstoxx, lines 76-79: the query window ends at date.today()
FetchVstoxxEntry ==
    /\ pc = "fetch_vstoxx"
    /\ attempt = 0
    /\ query_end' = Today(clock)
    /\ attempt' = 1
    /\ df' = NoFrame
    /\ UNCHANGED <<pc, bot_token, chat_id, clock, ticks, vix, vstoxx, arg_today, result,
                   message, err, exc, exit_code, log>>
    /\ UNCHANGED <<week_today, earlier>>

\* one iteration of fetch_vstoxx's loop
FetchVstoxxAttempt ==
    /\ pc = "fetch_vstoxx"
    /\ attempt >= 1
    /\ \E r \in Responses :
         LET out == vstoxx_attempt(r)
         IN  IF out.ok
             THEN /\ df' = r
                  /\ vstoxx' = out.val                       \* return val
                  /\ log' = Append(log, Request("vstoxx", attempt, TRUE))
                  /\ pc' = NextStep("fetch_vstoxx")
                  /\ attempt' = 0
                  /\ err' = NoException
                  /\ exc' = exc
             ELSE IF vstoxx_retry(attempt)
             THEN /\ log' = log \o << Request("vstoxx", attempt, FALSE),
                                      Sleep("vstoxx", attempt, vstoxx_delay(attempt)) >>
                  /\ attempt' = attempt + 1
                  /\ err' = out.err
                  /\ UNCHANGED <<pc, df, vstoxx, exc>>
             ELSE /\ log' = Append(log, Request("vstoxx", attempt, FALSE))
                  /\ Raise(out.err)                          \* raise
                  /\ UNCHANGED <<df, vstoxx>>
    /\ UNCHANGED <<bot_token, chat_id, clock, ticks, vix, query_end, arg_today, result,
                   message, exit_code>>
    /\ UNCHANGED <<week_today, earlier>>

\* main, line 243: result = evaluate(vix, vstoxx), today left to default
Evaluate ==
    /\ pc = "evaluate"
    /\ result' = evaluate(vix, vstoxx, arg_today)
    /\ pc' = NextStep("evaluate")
    /\ df' = NoFrame
    /\ UNCHANGED <<bot_token, chat_id, clock, ticks, attempt, vix, vstoxx,
                   query_end, arg_today, message, err, exc, exit_code, log>>
    /\ week_today' = Today(week_one_date(arg_today))
    /\ earlier' = earlier

\* main, lines 244-247: build the message, log it, call send_telegram
BuildMessage ==
    /\ pc = "build_message"
    /\ message' = build_message(vix, vstoxx, result)
    /\ pc' = NextStep("build_message")
    /\ attempt' = 1
    /\ UNCHANGED <<bot_token, chat_id, clock, ticks, df, vix, vstoxx, query_end,
                   arg_today, result, err, exc, exit_code, log>>
    /\ UNCHANGED <<week_today, earlier>>

\* one iteration of send_telegram's loop, called with the alert message
\* (main, line 247); on return main logs "Done." and the process exits 0
SendAlertAttempt ==
    /\ pc = "send_alert"
    /\ \E ok \in BOOLEAN :
         IF ok
         THEN /\ log' = Append(log, Request("alert", attempt, TRUE))
              /\ pc' = NextStep("send_alert")
              /\ exit_code' = ExitCode("Done")
              /\ attempt' = 0
              /\ err' = NoException
              /\ exc' = exc
         ELSE IF telegram_retry(attempt)
         THEN /\ log' = log \o << Request("alert", attempt, FALSE),
                                  Sleep("alert", attempt, telegram_delay(attempt)) >>
              /\ attempt' = attempt + 1
              /\ err' = "sendMessage failed"
              /\ UNCHANGED <<pc, exc, exit_code>>
         ELSE /\ log' = Append(log, Request("alert", attempt, FALSE))
              /\ Raise("sendMessage failed")                 \* raise
              /\ exit_code' = exit_code
    /\ UNCHANGED <<bot_token, chat_id, clock, ticks, df, vix, vstoxx, query_end,
                   arg_today, result, message>>
    /\ UNCHANGED <<week_today, earlier>>

\* a slip: sys.exit(1) only after the error text was sent, so that a failed
\* error notification falls off the end of main and the process exits 0
SendErrorAttempt_exit_in_try ==
    /\ pc = "send_error"
    /\ \E ok \in BOOLEAN :
         IF ok
         THEN /\ log' = Append(log, Request("error", attempt, TRUE))
              /\ pc' = "Failed"
              /\ exit_code' = 1
              /\ attempt' = 0
              /\ err' = NoException
         ELSE IF attempt < RETRIES
         THEN /\ log' = log \o << Request("error", attempt, FALSE),
                                  Sleep("error", attempt, RETRY_DELAY * attempt) >>
              /\ attempt' = attempt + 1
              /\ err' = "sendMessage failed"
              /\ UNCHANGED <<pc, exit_code>>
         ELSE /\ log' = Append(log, Request("error", attempt, FALSE))
              /\ pc' = "Done"
              /\ exit_code' = 0
              /\ attempt' = 0
              /\ err' = NoException
    /\ UNCHANGED <<bot_token, chat_id, clock, ticks, df, vix, vstoxx, query_end,
                   arg_today, result, message, exc>>
    /\ UNCHANGED <<week_today, earlier>>

\* one iteration of send_telegram's loop, called by main's handler with the
\* error text (line 253); whether it returns or raises, main exits 1 (254-256)
SendErrorAttempt ==
    /\ pc = "send_error"
    /\ \E ok \in BOOLEAN :
         IF ok
         THEN /\ log' = Append(log, Request("error", attempt, TRUE))
              /\ pc' = "Failed"
              /\ exit_code' = ExitCode("Failed")
              /\ attempt' = 0
              /\ err' = NoException
         ELSE IF telegram_retry(attempt)
         THEN /\ log' = log \o << Request("error", attempt, FALSE),
                                  Sleep("error", attempt, telegram_delay(attempt)) >>
              /\ attempt' = attempt + 1
              /\ err' = "sendMessage failed"
              /\ UNCHANGED <<pc, exit_code>>
         ELSE /\ log' = Append(log, Request("error", attempt, FALSE))
              /\ pc' = "Failed"                              \* except Exception
              /\ exit_code' = ExitCode("Failed")
              /\ attempt' = 0
              /\ err' = NoException
    /\ UNCHANGED <<bot_token, chat_id, clock, ticks, df, vix, vstoxx, query_end,
                   arg_today, result, message, exc>>
    /\ UNCHANGED <<week_today, earlier>>

\* midnight passes while the run is under way
Tick ==
    /\ pc \notin Terminal
    /\ ticks < MaxTicks
    /\ clock' = NextDate(clock)
    /\ ticks' = ticks + 1
    /\ UNCHANGED <<pc, bot_token, chat_id, attempt, df, vix, vstoxx, query_end,
                   arg_today, result, message, err, exc, exit_code, log>>
    /\ UNCHANGED <<week_today, earlier>>

Next ==
    \/ CheckSecrets
    \/ FetchVixAttempt
    \/ FetchVstoxxEntry
    \/ FetchVstoxxAttempt
    \/ Evaluate
    \/ BuildMessage
    \/ SendAlertAttempt
    \/ SendErrorAttempt
    \/ Tick

Spec == Init /\ [][Next]_vars

-----------------------------------------------------------------------------
(* Reading the log *)

IsRequest(e, t) == e.kind = "request" /\ e.target = t
IsSleep(e, t) == e.kind = "sleep" /\ e.target = t

\* the positions of the log that belong to the call to `t`
EventsOf(t) == {i \in DOMAIN log : log[i].target = t}
RequestsOf(t) == {i \in DOMAIN log : IsRequest(log[i], t)}

\* attempt `n` of the call to `t` was made and came out `ok`
Attempted(t, n, ok) ==
    \E i \in DOMAIN log : IsRequest(log[i], t) /\ log[i].n = n /\ log[i].ok = ok

Returned(t) == \E i \in DOMAIN log : IsRequest(log[i], t) /\ log[i].ok
Exhausted(t) == Attempted(t, 3, FALSE)

RECURSIVE SumSecs(_, _)
\* the seconds slept in events 1..n of the log during the call to `t`
SumSecs(t, n) ==
    IF n = 0 THEN 0
    ELSE SumSecs(t, n - 1) + (IF IsSleep(log[n], t) THEN log[n].secs ELSE 0)

SleptIn(t) == SumSecs(t, Len(log))

\* the call to `t` follows the retry policy: attempts numbered from 1, at
\* most three, each but the first right after the failure of the one before
\* and a sleep of 5 s (after the first) or 10 s (after the second); a sleep
\* only between two attempts
FollowsPolicy(t) ==
    /\ Cardinality(RequestsOf(t)) <= 3
    /\ \A i \in DOMAIN log :
         IsRequest(log[i], t) =>
            /\ log[i].n \in 1..3
            /\ log[i].n = 1 => \A j \in 1..(i - 1) : log[j].target # t
            /\ log[i].n > 1 =>
                 /\ i > 2
                 /\ IsSleep(log[i - 1], t)
                 /\ log[i - 1].n = log[i].n - 1
                 /\ log[i - 1].secs = (IF log[i].n = 2 THEN 5 ELSE 10)
                 /\ IsRequest(log[i - 2], t)
                 /\ log[i - 2].n = log[i].n - 1
                 /\ ~log[i - 2].ok
    /\ \A i \in DOMAIN log :
         IsSleep(log[i], t) =>
            /\ i > 1
            /\ IsRequest(log[i - 1], t) /\ ~log[i - 1].ok
            /\ log[i - 1].n = log[i].n
            /\ log[i].n \in 1..2
            /\ IF i < Len(log)
               THEN IsRequest(log[i + 1], t) /\ log[i + 1].n = log[i].n + 1
               ELSE attempt = log[i].n + 1

Fetchers == {"vix", "vstoxx"}

SecretAbsent(x) == x = "None" \/ x = ""

-----------------------------------------------------------------------------
(* C1: when the bot token or the chat id is absent or empty, the run ends  *)
(* in Misconfigured with exit code 2 and the log of requests stays empty:  *)
(* no fetch and no POST is ever issued.                                    *)
C1_MisconfiguredNoNetwork ==
    (SecretAbsent(bot_token) \/ SecretAbsent(chat_id)) =>
        /\ log = <<>>
        /\ pc \in {"main", "Misconfigured"}
        /\ pc = "Misconfigured" => exit_code = 2
        /\ pc = "main" => exit_code = Running

C1_Witness ==
    /\ pc = "Misconfigured"
    /\ bot_token = "secret"
    /\ chat_id = ""
    /\ exit_code = 2

(* C2: each of fetch_vix and fetch_vstoxx makes at most 3 attempts, attempt *)
(* k+1 only after attempt k failed, with a sleep of exactly 5 s after the  *)
(* first failure and 10 s after the second, whatever the failures are.     *)
C2_FetchRetryPolicy == \A t \in Fetchers : FollowsPolicy(t)

C2_Witness ==
    /\ Attempted("vix", 3, TRUE)
    /\ Attempted("vstoxx", 3, FALSE)
    /\ SleptIn("vix") = 15
    /\ SleptIn("vstoxx") = 15

\* the closes of the frame `f` that are numbers
NumbersOf(f) == {f.rows[i].Close : i \in {j \in DOMAIN f.rows : ~f.rows[j].isna}}

\* what holds of the call to `t` whatever it came to
C3_Call(t) ==
    \* two failures, then a success: 15 s slept in all
    /\ (Attempted(t, 1, FALSE) /\ Attempted(t, 2, FALSE) /\ Attempted(t, 3, TRUE))
          => SleptIn(t) = 5 + 10
    \* three failures: nothing of the call after the third, and the error
    \* reaches main's handler
    /\ \A i \in DOMAIN log :
         (IsRequest(log[i], t) /\ log[i].n = 3 /\ ~log[i].ok) =>
            /\ \A j \in (i + 1)..Len(log) : log[j].target # t
            /\ SleptIn(t) = 5 + 10
            /\ pc \in {"send_error", "Failed"}
            /\ exc # NoException
    \* a success: it is the last event of the call
    /\ \A i \in DOMAIN log :
         (IsRequest(log[i], t) /\ log[i].ok) =>
            /\ \A j \in (i + 1)..Len(log) : log[j].target # t
            /\ SleptIn(t) = (IF log[i].n = 1 THEN 0 ELSE IF log[i].n = 2 THEN 5 ELSE 15)
    /\ ~Attempted(t, 4, TRUE) /\ ~Attempted(t, 4, FALSE)

(* C3: a fetch that fails twice and then succeeds returns the third        *)
(* attempt's value after 5 + 10 = 15 s of sleep; a fetch that fails three  *)
(* times fails, with no sleep after the third failure and no fourth        *)
(* attempt; a fetch returns at its first success, with nothing after it.   *)
C3_FetchOutcomes ==
    /\ \A t \in Fetchers : C3_Call(t)
    \* the value returned is a close of the frame of the attempt that succeeded
    /\ (pc = "fetch_vstoxx" /\ attempt = 0) => vix \in NumbersOf(df)
    /\ pc = "evaluate" => vstoxx \in NumbersOf(df)

C3_Witness ==
    /\ Attempted("vix", 1, FALSE) /\ Attempted("vix", 2, FALSE)
    /\ Attempted("vix", 3, TRUE)
    /\ Attempted("vstoxx", 3, FALSE)
    /\ pc = "Failed"

(* C4: every call of send_telegram follows the same policy on its own: at  *)
(* most 3 POSTs, 5 s then 10 s between them, failure after the third with  *)
(* no further sleep, the count starting at 1 whatever the calls before it  *)
(* used up.                                                                *)
C4_TelegramRetryPolicy ==
    \A t \in {"alert", "error"} :
        /\ FollowsPolicy(t)
        /\ \A i \in DOMAIN log :
             (IsRequest(log[i], t) /\ log[i].n = 3 /\ ~log[i].ok) =>
                /\ \A j \in (i + 1)..Len(log) : log[j].target # t
                /\ SleptIn(t) = 5 + 10
        /\ (RequestsOf(t) # {}) => Attempted(t, 1, TRUE) \/ Attempted(t, 1, FALSE)

C4_Witness ==
    /\ Attempted("vix", 3, TRUE)
    /\ Attempted("vstoxx", 2, TRUE)
    /\ Attempted("alert", 3, FALSE)
    /\ Attempted("error", 3, FALSE)
    /\ pc = "Failed"

\* the call to `t` was made once: one first attempt
CalledOnce(t) ==
    Cardinality({i \in DOMAIN log : IsRequest(log[i], t) /\ log[i].n = 1}) = 1

\* every event after position i belongs to the error notification
OnlyErrorAfter(i) == \A j \in (i + 1)..Len(log) : log[j].target = "error"

(* C5 as stated: when the delivery of the alert message exhausts its 3     *)
(* attempts, the run goes to Failed and no further notification POST (no   *)
(* error message) is issued.                                               *)
C5_NoErrorNotifyAfterAlertFailure ==
    Exhausted("alert") => RequestsOf("error") = {}

(* C5 as amended: when the delivery of the alert message exhausts its 3    *)
(* attempts, main's handler makes one error-notification call (1 to 3      *)
(* POSTs of the error text) and then the run ends in Failed, exit code 1.  *)
C5_ErrorNotifyAfterAlertFailure ==
    \A i \in DOMAIN log :
        (IsRequest(log[i], "alert") /\ log[i].n = 3 /\ ~log[i].ok) =>
            /\ pc \in {"send_error", "Failed"}
            /\ OnlyErrorAfter(i)
            /\ i < Len(log) => IsRequest(log[i + 1], "error") /\ log[i + 1].n = 1
            /\ Cardinality(RequestsOf("error")) <= 3
            /\ pc = "Failed" =>
                 /\ exit_code = 1
                 /\ CalledOnce("error")
                 /\ Returned("error") \/ Exhausted("error")

C5_Witness ==
    /\ Exhausted("alert")
    /\ Attempted("error", 1, TRUE)
    /\ pc = "Failed"

(* C6: when fetch_vix or fetch_vstoxx fails terminally, main makes one     *)
(* error notification through send_telegram and ends in Failed with exit   *)
(* code 1; when that notification fails after its retries too, the failure *)
(* is swallowed and the run still ends in Failed with exit code 1.         *)
C6_FetchFailureNotifiesOnce ==
    /\ \A t \in Fetchers : \A i \in DOMAIN log :
         (IsRequest(log[i], t) /\ log[i].n = 3 /\ ~log[i].ok) =>
            /\ pc \in {"send_error", "Failed"}
            /\ exc # NoException
            /\ OnlyErrorAfter(i)
            /\ i < Len(log) => IsRequest(log[i + 1], "error") /\ log[i + 1].n = 1
            /\ pc = "Failed" =>
                 /\ exit_code = 1
                 /\ CalledOnce("error")
                 /\ Returned("error") \/ Exhausted("error")
    /\ Exhausted("error") => pc = "Failed" /\ exit_code = 1
    /\ Returned("error") => pc = "Failed" /\ exit_code = 1

C6_Witness ==
    /\ Exhausted("vstoxx")
    /\ Exhausted("error")
    /\ pc = "Failed"
    /\ exit_code = 1

\* the place of a call in the sequence of main
Rank(t) == CASE t = "vix" -> 1 [] t = "vstoxx" -> 2 [] t = "alert" -> 3
             [] t = "error" -> 4

ReturnedBefore(t, j) ==
    \E i \in 1..(j - 1) : IsRequest(log[i], t) /\ log[i].ok

(* C7: the steps of a run occur in the order fetch VIX, fetch vStoxx,      *)
(* evaluate, build the message, send: no vStoxx attempt before the VIX     *)
(* fetch returned a value, none at all when it failed terminally, and no   *)
(* POST of the alert unless both fetches returned a value.                 *)
C7_StrictOrder ==
    /\ \A i, j \in DOMAIN log : i < j => Rank(log[i].target) <= Rank(log[j].target)
    /\ \A j \in DOMAIN log :
         /\ log[j].target = "vstoxx" => ReturnedBefore("vix", j)
         /\ log[j].target = "alert" =>
              \E k \in 1..(j - 1) :
                 /\ IsRequest(log[k], "vstoxx") /\ log[k].ok
                 /\ ReturnedBefore("vix", k)
    /\ Exhausted("vix") => EventsOf("vstoxx") = {} /\ EventsOf("alert") = {}
    /\ Exhausted("vstoxx") => EventsOf("alert") = {}
    /\ pc = "fetch_vix" => EventsOf("vstoxx") = {} /\ EventsOf("alert") = {}
    /\ pc = "fetch_vstoxx" =>
         Returned("vix") /\ ~Returned("vstoxx") /\ EventsOf("alert") = {}
    /\ pc \in {"evaluate", "build_message"} =>
         Returned("vix") /\ Returned("vstoxx") /\ EventsOf("alert") = {}
    /\ pc = "build_message" => result.spread = vstoxx - vix
    /\ pc = "send_alert" =>
         /\ Returned("vix") /\ Returned("vstoxx")
         /\ result.spread = vstoxx - vix
         /\ message # NoMessage
    /\ pc \in {"main", "fetch_vix", "fetch_vstoxx", "evaluate", "build_message"}
         => message = NoMessage

C7_Witness ==
    /\ pc = "Done"
    /\ Attempted("vix", 2, TRUE)
    /\ Attempted("vstoxx", 3, TRUE)
    /\ Attempted("alert", 2, TRUE)

(* C8: a run that has ended is in one of Done (exit code 0), Failed (1)    *)
(* and Misconfigured (2); it is in Done if and only if both secrets are    *)
(* present, both fetches returned a value and the alert was delivered      *)
(* within its retries; every other run with the secrets present is in      *)
(* Failed with exit code 1.                                                *)
C8_TerminalStates ==
    LET secrets == ~SecretAbsent(bot_token) /\ ~SecretAbsent(chat_id)
        success == /\ secrets
                   /\ Returned("vix") /\ Returned("vstoxx") /\ Returned("alert")
    IN  /\ (pc \in Terminal) <=> (exit_code # Running)
        /\ pc \in Terminal =>
             /\ (pc = "Done") <=> (exit_code = 0)
             /\ (pc = "Failed") <=> (exit_code = 1)
             /\ (pc = "Misconfigured") <=> (exit_code = 2)
             /\ (pc = "Done") <=> success
             /\ (secrets /\ ~success) => (pc = "Failed" /\ exit_code = 1)
             /\ ~secrets => (pc = "Misconfigured" /\ exit_code = 2)

C8_Witness ==
    /\ pc = "Failed"
    /\ exit_code = 1
    /\ Returned("vix") /\ Returned("vstoxx")
    /\ Exhausted("alert")

-----------------------------------------------------------------------------
(* evaluate on its own: called once with any two prices and any date, or   *)
(* with no date, under any state of the system clock                       *)

\* prices in fixed point: the closes of the sources and the figures of the
\* scenarios 15.00 / 18.00 / 27.00
EvalPrices == Closes \cup {18 * PriceScale, 27 * PriceScale}

EvalDates == StartDates \cup {Date(1, 3), Date(2, 7), Date(2, 8)}

EvalInit ==
    /\ pc = "evaluate"
    /\ bot_token = "secret"
    /\ chat_id = "secret"
    /\ clock \in StartDates
    /\ ticks = 0
    /\ attempt = 0
    /\ df = NoFrame
    /\ vix \in EvalPrices
    /\ vstoxx \in EvalPrices
    /\ query_end = NoDate
    /\ arg_today \in {NoDate} \cup {Today(d) : d \in EvalDates}
    /\ week_today = NoDate
    /\ earlier = NoResult
    /\ result = NoResult
    /\ message = NoMessage
    /\ err = NoException
    /\ exc = NoException
    /\ exit_code = Running
    /\ log = <<>>

EvalNext == Evaluate

EvalSpec == EvalInit /\ [][EvalNext]_vars

\* the call has returned
Evaluated == pc = "build_message"

\* the date the call was about: its argument, or the clock's date without one
EvalDay == IF arg_today = NoDate THEN clock.day ELSE arg_today[1].day

(* C9: evaluate(vix, vstoxx, today) returns spread = vstoxx - vix,         *)
(* euCrisis = (spread > 10.0), strictly (10.0 itself is no crisis, any     *)
(* spread above is), weekOne = (day of month <= 7) (day 7 is week one, day *)
(* 8 is not), and enter = weekOne and not euCrisis.                        *)
C9_EvaluateVerdict ==
    Evaluated =>
        /\ result.spread = vstoxx - vix
        /\ result.eu_crisis <=> (vstoxx - vix > 10 * PriceScale)
        /\ vstoxx - vix = 10 * PriceScale => ~result.eu_crisis
        /\ vstoxx - vix = 10 * PriceScale + 1 => result.eu_crisis
        /\ result.week_one <=> (EvalDay <= 7)
        /\ EvalDay = 7 => result.week_one
        /\ EvalDay = 8 => ~result.week_one
        /\ result.enter <=> (EvalDay <= 7 /\ ~(vstoxx - vix > 10 * PriceScale))

C9_Witness ==
    /\ Evaluated
    /\ vstoxx - vix = 10 * PriceScale
    /\ arg_today = Today(Date(2, 7))
    /\ clock = Date(1, 15)
    /\ result.enter

(* C10: the verdict evaluate returns is in exactly one of the classes      *)
(* enter (weekOne, no crisis), skip-crisis (weekOne, crisis) and no-signal *)
(* (not weekOne); outside week one enter is false whatever the crisis      *)
(* state.                                                                  *)
C10_ExactlyOneOutcome ==
    Evaluated =>
        LET enter  == result.enter
            skip   == result.week_one /\ result.eu_crisis
            nosig  == ~result.week_one
        IN  /\ enter \/ skip \/ nosig
            /\ ~(enter /\ skip) /\ ~(enter /\ nosig) /\ ~(skip /\ nosig)
            /\ enter <=> (result.week_one /\ ~result.eu_crisis)
            /\ EvalDay > 7 => ~result.enter

C10_Witness ==
    /\ Evaluated
    /\ EvalDay = 15
    /\ vix = 15 * PriceScale /\ vstoxx = 18 * PriceScale
    /\ ~result.week_one /\ ~result.eu_crisis /\ ~result.enter

-----------------------------------------------------------------------------
(* evaluate called twice with the same arguments, the clock free to move   *)
(* before, between and after the calls                                     *)

\* a second call of evaluate with the arguments of the first
EvaluateAgain ==
    /\ pc = "build_message"
    /\ earlier' = result
    /\ result' = evaluate(vix, vstoxx, arg_today)
    /\ week_today' = Today(week_one_date(arg_today))
    /\ pc' = "evaluated_twice"
    /\ UNCHANGED <<bot_token, chat_id, clock, ticks, attempt, df, vix, vstoxx,
                   query_end, arg_today, message, err, exc, exit_code, log>>

TwiceNext ==
    \/ Evaluate
    \/ EvaluateAgain
    \/ Tick

TwiceSpec == EvalInit /\ [][TwiceNext]_vars

EvaluatedTwice == pc = "evaluated_twice"

-----------------------------------------------------------------------------
(* The dates of a run *)

\* the date the message displays: its second line
DisplayedDate(msg) == msg[2].args[1]

(* C12: the current date is read once per run: the date weekOne was        *)
(* computed from, the date the alert message displays and the date that    *)
(* ends the vStoxx query window are the same date in every run, even when  *)
(* the system clock moves to the next day between the steps of the run.    *)
C12_OneDatePerRun ==
    /\ week_today # NoDate => week_today = query_end
    /\ message # NoMessage =>
         /\ DisplayedDate(message) = week_today[1]
         /\ DisplayedDate(message) = query_end[1]

-----------------------------------------------------------------------------
(* The lines of the message *)

\* how many lines of msg carry one of the tags
LinesTagged(msg, tags) == Cardinality({i \in DOMAIN msg : msg[i].tag \in tags})

Has(msg, tag) == \E i \in DOMAIN msg : msg[i].tag = tag

WeekLines == {"Week 1 of month: YES", "Week 1 of month: NO"}
CrisisLines == {"EU Crisis filter: TRIGGERED", "EU Crisis filter: CLEAR"}
VerdictBlocks == {"ENTER TRADE", "SKIP ENTRY", "NO SIGNAL"}

Built == message # NoMessage

(* C13: for every verdict evaluate produced, the message has one week-one  *)
(* line, one crisis-filter line and exactly one of the three verdict       *)
(* blocks, chosen as the verdict says: ENTER TRADE iff enter, SKIP ENTRY   *)
(* iff weekOne and euCrisis, NO SIGNAL iff not weekOne; the week line says *)
(* YES iff weekOne and the crisis line TRIGGERED iff euCrisis.             *)
C13_MessageMirrorsVerdict ==
    Built =>
        /\ LinesTagged(message, WeekLines) = 1
        /\ LinesTagged(message, CrisisLines) = 1
        /\ LinesTagged(message, VerdictBlocks) = 1
        /\ Has(message, "ENTER TRADE") <=> result.enter
        /\ Has(message, "SKIP ENTRY") <=> (result.week_one /\ result.eu_crisis)
        /\ Has(message, "NO SIGNAL") <=> ~result.week_one
        /\ Has(message, "Week 1 of month: YES") <=> result.week_one
        /\ Has(message, "EU Crisis filter: TRIGGERED") <=> result.eu_crisis

C13_Witness ==
    /\ Built
    /\ ~result.week_one /\ result.eu_crisis
    /\ Has(message, "NO SIGNAL")
    /\ Has(message, "EU Crisis filter: TRIGGERED")

\* the last n lines of msg
LastLines(msg, n) == SubSeq(msg, Len(msg) - n + 1, Len(msg))

NoSignalBlock ==
    << Line("rule", <<>>), Line("NO SIGNAL", <<>>),
       Line("Wait for week 1 of next month", <<>>), Line("rule", <<>>) >>

(* C18, as stated: outside week one the message does not report whether    *)
(* the EU crisis filter is triggered or clear.                             *)
C18_CrisisUnreportedOutsideWeekOne ==
    (Built /\ ~result.week_one) => LinesTagged(message, CrisisLines) = 0

(* C18, amended: outside week one the verdict block is the NO SIGNAL block *)
(* whatever the crisis state, and it names neither the spread nor the      *)
(* filter; the crisis-filter status line above it is rendered all the      *)
(* same, TRIGGERED iff euCrisis and CLEAR otherwise.                       *)
C18_CrisisLineKeptOutsideWeekOne ==
    (Built /\ ~result.week_one) =>
        /\ LastLines(message, 4) = NoSignalBlock
        /\ LinesTagged(message, CrisisLines) = 1
        /\ Has(message, "EU Crisis filter: TRIGGERED") <=> result.eu_crisis
        /\ Has(message, "EU Crisis filter: CLEAR") <=> ~result.eu_crisis

C18_Witness ==
    /\ Built
    /\ ~result.week_one /\ ~result.eu_crisis
    /\ LastLines(message, 4) = NoSignalBlock
    /\ Has(message, "EU Crisis filter: CLEAR")

-----------------------------------------------------------------------------
(* The value a fetcher returns *)

\* fetch_vix has just returned: df is the response its value was read from
VixReturned == pc = "fetch_vstoxx" /\ attempt = 0
\* fetch_vstoxx has just returned
VstoxxReturned == pc = "evaluate"

\* a row is valid when its close is present and positive
ValidRow(x) == ~x.isna /\ x.Close > 0
ValidRows(r) == SelectSeq(r.rows, ValidRow)
\* the rows whose close is present
PresentRows(r) == SelectSeq(r.rows, LAMBDA x : ~x.isna)

Last(sq) == sq[Len(sq)]

\* the close of the row of sq with the greatest date
LatestClose(sq) ==
    LET i == CHOOSE i \in DOMAIN sq : \A j \in DOMAIN sq : sq[j].Date <= sq[i].Date
    IN  sq[i].Close

\* the response lists its rows oldest first
OldestFirst(r) ==
    \A i, j \in DOMAIN r.rows : i < j => r.rows[i].Date < r.rows[j].Date

(* C14: the value either fetcher returns is never negative, never zero and *)
(* never a placeholder for missing data: it is the close of a row whose    *)
(* close is present and positive.                                          *)
C14_PositiveCloses ==
    /\ VixReturned =>
         /\ vix > 0
         /\ \E i \in DOMAIN df.rows : ValidRow(df.rows[i]) /\ df.rows[i].Close = vix
    /\ VstoxxReturned =>
         /\ vstoxx > 0
         /\ \E i \in DOMAIN df.rows : ValidRow(df.rows[i]) /\ df.rows[i].Close = vstoxx

(* C15, as stated: for every response with at least one valid row, in any  *)
(* row order, the fetcher returns the close of the valid row with the      *)
(* greatest date: selected by date, not by position.                       *)
C15_LastByDate ==
    /\ (VixReturned /\ ValidRows(df) # <<>>) => vix = LatestClose(ValidRows(df))
    /\ (VstoxxReturned /\ ValidRows(df) # <<>>) =>
           vstoxx = LatestClose(ValidRows(df))

(* C15, amended: the fetcher returns the close of the last row, in the     *)
(* order of the response, among the rows it keeps (fetch_vstoxx: close     *)
(* present and positive; fetch_vix: close present); that is the close of   *)
(* the kept row with the greatest date when the response lists its rows    *)
(* oldest first, and the close of the oldest kept row when it lists them   *)
(* newest first.                                                           *)
C15_LastByPosition ==
    /\ VixReturned =>
         /\ vix = Last(PresentRows(df)).Close
         /\ OldestFirst(df) => vix = LatestClose(PresentRows(df))
         /\ ~OldestFirst(df) =>
              \A i \in DOMAIN PresentRows(df) :
                 Last(PresentRows(df)).Date <= PresentRows(df)[i].Date
    /\ VstoxxReturned =>
         /\ vstoxx = Last(ValidRows(df)).Close
         /\ OldestFirst(df) => vstoxx = LatestClose(ValidRows(df))
         /\ ~OldestFirst(df) =>
              \A i \in DOMAIN ValidRows(df) :
                 Last(ValidRows(df)).Date <= ValidRows(df)[i].Date

C15_Witness ==
    /\ VstoxxReturned
    /\ ~OldestFirst(df)
    /\ Len(ValidRows(df)) = 2
    /\ vstoxx = Last(ValidRows(df)).Close
    /\ vstoxx # LatestClose(ValidRows(df))

\* a response an attempt can take a value from, by the claim's rules
Usable(r) ==
    /\ ~r.error
    /\ r.rows # <<>>
    /\ r.has_close
    /\ ValidRows(r) # <<>>

(* C16: in both fetchers an empty response, a response without the Close   *)
(* column and a response whose rows are all invalid (close missing or not  *)
(* positive, all-negative prices included) are attempt failures: none of   *)
(* them ever yields a returned value.                                      *)
C16_InvalidResponsesFail ==
    /\ VixReturned => Usable(df)
    /\ VstoxxReturned => Usable(df)

-----------------------------------------------------------------------------
(* The error notification *)

\* the steps of main's try block that issue requests
TrySteps == {"vix", "vstoxx", "alert"}

\* before position j of the log, some step of the try block failed its last
\* attempt
FailedTerminallyBefore(j) ==
    \E i \in 1..(j - 1) :
        /\ log[i].kind = "request"
        /\ log[i].target \in TrySteps
        /\ log[i].n = RETRIES
        /\ ~log[i].ok

(* C19: the error notification is called at most once in a run, so at most *)
(* 3 error POSTs are issued, and only after a step failed terminally; a    *)
(* run that ends in Done issues none, and no run both has its alert        *)
(* delivered and issues an error POST.                                     *)
C19_ErrorNotifyAtMostOnce ==
    /\ Cardinality(RequestsOf("error")) <= RETRIES
    /\ Cardinality({i \in RequestsOf("error") : log[i].n = 1}) <= 1
    /\ \A j \in RequestsOf("error") : FailedTerminallyBefore(j)
    /\ pc = "Done" => RequestsOf("error") = {}
    /\ ~(Returned("alert") /\ RequestsOf("error") # {})

C19_Witness ==
    /\ pc = "Failed"
    /\ Exhausted("vstoxx")
    /\ Cardinality(RequestsOf("error")) = RETRIES
    /\ ~Returned("error")

-----------------------------------------------------------------------------
(* Termination and the retry budget *)

\* the statements of the program; the clock is not one of them
Step ==
    \/ CheckSecrets
    \/ FetchVixAttempt
    \/ FetchVstoxxEntry
    \/ FetchVstoxxAttempt
    \/ Evaluate
    \/ BuildMessage
    \/ SendAlertAttempt
    \/ SendErrorAttempt

\* a run started on the last day of week one; no guard of a retry loop reads
\* the date
FairInit == Init /\ clock = Date(1, WEEK_ONE_MAX_DAY)

\* the single thread of control keeps running: every request returns or
\* raises within its timeout and every sleep ends
FairSpec == FairInit /\ [][Next]_vars /\ WF_vars(Step)

Terminated == pc \in Terminal

\* the calls that retry
ResilientCalls == {"vix", "vstoxx", "alert", "error"}

\* the longest a call sleeps: RETRY_DELAY * 1 + RETRY_DELAY * 2
CallBudget == RETRY_DELAY * 1 + RETRY_DELAY * 2

TotalSlept == SleptIn("vix") + SleptIn("vstoxx") + SleptIn("alert") + SleptIn("error")

WithinCallBudget ==
    \A t \in ResilientCalls :
        /\ Cardinality(RequestsOf(t)) <= RETRIES
        /\ SleptIn(t) <= CallBudget

(* C17, as stated (its bounds): each resilient call makes at most 3        *)
(* attempts and sleeps at most 15 s, and the whole run sleeps at most 15 s *)
(* times three resilient calls (fetch A, fetch B, notify).                 *)
C17_BudgetOfThreeCalls ==
    /\ WithinCallBudget
    /\ TotalSlept <= CallBudget * 3

(* C17, amended: every run eventually reaches Done, Failed or              *)
(* Misconfigured; each resilient call makes at most 3 attempts and sleeps  *)
(* at most 15 s; there are up to four resilient calls in a run (fetch A,   *)
(* fetch B, notify and the error notification), so the whole run sleeps at *)
(* most 15 s times four, 60 s.                                             *)
C17_TerminatesWithinBudget ==
    /\ <>Terminated
    /\ [](WithinCallBudget /\ TotalSlept <= CallBudget * 4)

C17_Witness ==
    /\ pc = "Failed"
    /\ Exhausted("alert")
    /\ TotalSlept = CallBudget * 4

====
